---- MODULE Spec2Model ----
(***************************************************************************)
(* Model of chatbot.py: a Streamlit script that is re-run from top to      *)
(* bottom on every widget interaction.  Widget values are the state kept   *)
(* between runs; everything a run draws (st.error, st.markdown,            *)
(* st.download_button) is the output of the LAST run only.                 *)
(*                                                                         *)
(* Text is a sequence of tokens.  User text is a sequence over Alphabet;   *)
(* each literal piece of an f-string template is one token.               *)
(***************************************************************************)
EXTENDS Integers, Sequences, FiniteSets, TLC

\* ---------------------------------------------------------------- bounds
MaxLen == 2      \* longest text typed into a text_input / text_area
MaxPages == 2    \* most pages of an uploaded PDF

SeqsUpTo(S, n) == UNION { [1..k -> S] : k \in 0..n }

Alphabet == {"a", " "}
Texts == SeqsUpTo(Alphabet, MaxLen)

\* text that page.extract_text() can return for one page
PageTexts == { <<>>, <<"p">>, <<"q">> }
\* one page: either extract_text() raises, or it returns text
Pages == [raises : {FALSE}, text : PageTexts] \cup [raises : {TRUE}, text : {<<>>}]
\* an uploaded PDF: PdfReader(...) parses it or raises; then its pages
PdfDocs == [parses : {TRUE}, pages : SeqsUpTo(Pages, MaxPages)]
             \cup [parses : {FALSE}, pages : {<<>>}]

\* str(e) of the exception PdfReader raises / page.extract_text() raises
PARSE_ERR == "EOF marker not found"
PAGE_ERR == "page extraction failed"

\* what model.generate_content(prompt) / response.text does for one call:
\* kind "text": response.text is `text`; kind "fault": an exception whose
\* str(e) is `text` (possibly empty) is raised inside the try block
GenTexts == { <<>>, <<"t">> }
Responses == [kind : {"text", "fault"}, text : GenTexts]

\* ------------------------------------------------------ python values
None == [isNone |-> TRUE, text |-> <<>>]
Str(t) == [isNone |-> FALSE, text |-> t]
\* `if x:` for x a str or None
Truthy(v) == ~v.isNone /\ Len(v.text) > 0

\* str.replace(' ', '_')
Replace(s) == [i \in 1..Len(s) |-> IF s[i] = " " THEN "_" ELSE s[i]]

\* ------------------------------------------------------ widget domains
Options == {"Resume Feedback", "Career Roadmap", "Mock Interview", "Career Advice"}
ExperienceLevels == {"Beginner", "Intermediate", "Advanced", "Career Change"}
InterviewTypes == {"Technical + Behavioral", "Technical Only", "Behavioral Only"}

NoFile == [present |-> FALSE, doc |-> [parses |-> FALSE, pages |-> <<>>]]
File(d) == [present |-> TRUE, doc |-> d]

\* --------------------------------------------------- extract_text_from_pdf
\* the for loop of lines 24-25: text accumulated so far, stops at a raise
RECURSIVE PagesLoop(_, _, _)
PagesLoop(pages, i, text) ==
  IF i > Len(pages) THEN [raised |-> FALSE, text |-> text]
  ELSE IF pages[i].raises THEN [raised |-> TRUE, text |-> text]
  ELSE PagesLoop(pages, i + 1, text \o pages[i].text)

NoError == [shown |-> FALSE, msg |-> <<>>]
Error(m) == [shown |-> TRUE, msg |-> m]

extract_text_from_pdf_partial(doc) ==
  IF ~doc.parses
    THEN [ret |-> None, st_error |-> Error(<<"Error reading PDF: ", PARSE_ERR>>)]
    ELSE [ret |-> Str(PagesLoop(doc.pages, 1, <<>>).text), st_error |-> NoError]

extract_text_from_pdf(doc) ==
  IF ~doc.parses
    THEN [ret |-> None, st_error |-> Error(<<"Error reading PDF: ", PARSE_ERR>>)]
    ELSE LET r == PagesLoop(doc.pages, 1, <<>>)
         IN IF r.raised
              THEN [ret |-> None, st_error |-> Error(<<"Error reading PDF: ", PAGE_ERR>>)]
              ELSE [ret |-> Str(r.text), st_error |-> NoError]

\* ------------------------------------------------- generation functions
\* One entry of the run's call log.
ExtractCall == [call |-> "extract_text_from_pdf", fn |-> "", prompt |-> <<>>]
GenCall(fn, prompt) == [call |-> "generate_content", fn |-> fn, prompt |-> prompt]

\* literal pieces of the four f-string templates
RESUME_HEAD == "Analyze the following resume and provide professional feedback. ... Resume Content: "
RESUME_TAIL == "<end of resume template>"
ROADMAP_HEAD == "Create a detailed learning and career roadmap for someone who wants to become a "
ROADMAP_TAIL == ". Please include: 1. Essential skills ... 8. Salary expectations ..."
INTERVIEW_HEAD == "Create a mock technical interview simulation for a "
INTERVIEW_TAIL == " role. Please provide: 1. 5 technical questions ... 2. 2 behavioral questions ... 3. 1 scenario-based ..."
ADVICE_HEAD == "As an experienced career coach, ... Question: "
ADVICE_TAIL == " Please provide: 1. Direct answer ... 4. Resources or next steps to explore"

\* Each function: builds the prompt, makes the call inside try/except and
\* returns response.text, or the stringified exception behind a prefix.
\* `raised` tells whether an exception leaves the function.
get_resume_feedback_nocatch(resume_text, resp) ==
  LET prompt == <<RESUME_HEAD>> \o resume_text \o <<RESUME_TAIL>>
  IN [calls |-> << GenCall("get_resume_feedback", prompt) >>,
      raised |-> (resp.kind = "fault"),
      value |-> IF resp.kind = "text" THEN resp.text ELSE <<>>]

get_resume_feedback(resume_text, resp) ==
  LET prompt == <<RESUME_HEAD>> \o resume_text \o <<RESUME_TAIL>>
  IN [calls |-> << GenCall("get_resume_feedback", prompt) >>,
      raised |-> FALSE,
      value |-> IF resp.kind = "text" THEN resp.text
                ELSE <<"Error generating feedback: ">> \o resp.text]

generate_roadmap(goal, resp) ==
  LET prompt == <<ROADMAP_HEAD>> \o goal \o <<ROADMAP_TAIL>>
  IN [calls |-> << GenCall("generate_roadmap", prompt) >>,
      raised |-> FALSE,
      value |-> IF resp.kind = "text" THEN resp.text
                ELSE <<"Error generating roadmap: ">> \o resp.text]

mock_interview_decorated(domain, resp) ==
  LET prompt == <<INTERVIEW_HEAD>> \o domain \o <<INTERVIEW_TAIL>>
  IN [calls |-> << GenCall("mock_interview", prompt) >>,
      raised |-> FALSE,
      value |-> IF resp.kind = "text" THEN <<"Interview questions: ">> \o resp.text
                ELSE <<"Error generating interview questions: ">> \o resp.text]

mock_interview(domain, resp) ==
  LET prompt == <<INTERVIEW_HEAD>> \o domain \o <<INTERVIEW_TAIL>>
  IN [calls |-> << GenCall("mock_interview", prompt) >>,
      raised |-> FALSE,
      value |-> IF resp.kind = "text" THEN resp.text
                ELSE <<"Error generating interview questions: ">> \o resp.text]

get_career_advice_retry(question, resp) ==
  LET prompt == <<ADVICE_HEAD>> \o question \o <<ADVICE_TAIL>>
  IN [calls |-> IF resp.kind = "text"
                  THEN << GenCall("get_career_advice", prompt) >>
                  ELSE << GenCall("get_career_advice", prompt),
                          GenCall("get_career_advice", prompt) >>,
      raised |-> FALSE,
      value |-> IF resp.kind = "text" THEN resp.text
                ELSE <<"Error generating advice: ">> \o resp.text]

get_career_advice(question, resp) ==
  LET prompt == <<ADVICE_HEAD>> \o question \o <<ADVICE_TAIL>>
  IN [calls |-> << GenCall("get_career_advice", prompt) >>,
      raised |-> FALSE,
      value |-> IF resp.kind = "text" THEN resp.text
                ELSE <<"Error generating advice: ">> \o resp.text]

\* ------------------------------------------------------ the four branches
\* What one run of the script draws and calls.
NoText == [shown |-> FALSE, text |-> <<>>]
Shown(t) == [shown |-> TRUE, text |-> t]
NoDownload == [offered |-> FALSE, data |-> <<>>, file_name |-> <<>>]
Download(d, f) == [offered |-> TRUE, data |-> d, file_name |-> f]

\* a run in which no button was pressed, or whose guard was false
Idle == [events |-> <<>>, resume_text |-> None, st_error |-> NoError,
         st_markdown |-> NoText, download |-> NoDownload, uncaught |-> FALSE]

\* after a generation function returned r (or raised): lines 165-174 etc.
Present(base, r, file_name) ==
  IF r.raised
    THEN [base EXCEPT !.events = base.events \o r.calls, !.uncaught = TRUE]
    ELSE [base EXCEPT !.events = base.events \o r.calls,
                      !.st_markdown = Shown(r.value),
                      !.download = Download(r.value, file_name)]

\* lines 158-174, with the button pressed
ResumeFeedbackBranch_noguard(doc, resp) ==
  LET x == extract_text_from_pdf(doc)
      base == [Idle EXCEPT !.events = <<ExtractCall>>,
                           !.resume_text = x.ret, !.st_error = x.st_error]
  IN Present(base, get_resume_feedback(x.ret.text, resp), <<"resume_feedback.txt">>)

ResumeFeedbackBranch(doc, resp) ==
  LET x == extract_text_from_pdf(doc)
      base == [Idle EXCEPT !.events = <<ExtractCall>>,
                           !.resume_text = x.ret, !.st_error = x.st_error]
  IN IF Truthy(x.ret)
       THEN Present(base, get_resume_feedback(x.ret.text, resp), <<"resume_feedback.txt">>)
       ELSE base

\* line 197
RoadmapEnhancedPrompt_goalonly(goal, experience_level) == goal

RoadmapEnhancedPrompt(goal, experience_level) ==
  goal \o <<" (Current level: ", experience_level, ")">>

\* lines 196-211, with the button pressed
CareerRoadmapBranch(goal, experience_level, resp) ==
  Present(Idle, generate_roadmap(RoadmapEnhancedPrompt(goal, experience_level), resp),
          Replace(goal) \o <<"_roadmap.txt">>)

\* line 234
InterviewEnhancedPrompt(domain, interview_type) ==
  domain \o <<" - ", interview_type, " focus">>

\* lines 233-248, with the button pressed
MockInterviewBranch(domain, interview_type, resp) ==
  Present(Idle, mock_interview(InterviewEnhancedPrompt(domain, interview_type), resp),
          Replace(domain) \o <<"_interview_questions.txt">>)

\* lines 262-275, with the button pressed
CareerAdviceBranch(question, resp) ==
  Present(Idle, get_career_advice(question, resp), <<"career_advice.txt">>)

\* ------------------------------------------------------------- state
VARIABLES
  apiKey,            \* os.getenv("GEMINI_API_KEY") is set
  option,            \* sidebar selectbox
  uploaded_file,     \* st.file_uploader
  goal,              \* st.text_input, Career Roadmap
  experience_level,  \* st.selectbox, Career Roadmap
  domain,            \* st.text_input, Mock Interview
  interview_type,    \* st.selectbox, Mock Interview
  question,          \* st.text_area, Career Advice
  button,            \* label of the button pressed for the last run, "" if none
  remote,            \* <<r>>: what the remote service answered in the last run
  events,            \* calls made by the last run, in order
  resume_text,       \* value of resume_text in the last run
  st_error,          \* st.error drawn by the last run
  st_markdown,       \* result text drawn by the last run
  download,          \* st.download_button drawn by the last run
  uncaught           \* an exception escaped the last run

widgets == <<uploaded_file, goal, experience_level, domain, interview_type, question>>
outputs == <<button, remote, events, resume_text, st_error, st_markdown, download, uncaught>>
vars == <<apiKey, option, widgets, outputs>>

GenCalls(ev) == SelectSeq(ev, LAMBDA c : c.call = "generate_content")

\* the script ran to its end with `out` drawn, `b` the pressed button
Ran(b, resp, out) ==
  /\ button' = b
  /\ remote' = IF GenCalls(out.events) = <<>> THEN <<>> ELSE <<resp>>
  /\ events' = out.events
  /\ resume_text' = out.resume_text
  /\ st_error' = out.st_error
  /\ st_markdown' = out.st_markdown
  /\ download' = out.download
  /\ uncaught' = out.uncaught

\* a widget changed: the script re-runs and no button reads True
Rerun == Ran("", [kind |-> "text", text |-> <<>>], Idle)

Init ==
  /\ apiKey \in BOOLEAN
  /\ option = "Resume Feedback"
  /\ uploaded_file = NoFile
  /\ goal = <<>>
  /\ experience_level = "Beginner"
  /\ domain = <<>>
  /\ interview_type = "Technical + Behavioral"
  /\ question = <<>>
  /\ button = ""
  /\ remote = <<>>
  /\ events = <<>>
  /\ resume_text = None
  /\ st_error = NoError
  /\ st_markdown = NoText
  /\ download = NoDownload
  /\ uncaught = FALSE

\* Widgets of a branch that is not rendered lose their value.
SelectOption(o) ==
  /\ o # option
  /\ option' = o
  /\ uploaded_file' = NoFile
  /\ goal' = <<>>
  /\ experience_level' = "Beginner"
  /\ domain' = <<>>
  /\ interview_type' = "Technical + Behavioral"
  /\ question' = <<>>
  /\ Rerun
  /\ UNCHANGED apiKey

UploadFile(d) ==
  /\ option = "Resume Feedback"
  /\ uploaded_file # File(d)
  /\ uploaded_file' = File(d)
  /\ Rerun
  /\ UNCHANGED <<apiKey, option, goal, experience_level, domain, interview_type, question>>

RemoveFile ==
  /\ option = "Resume Feedback"
  /\ uploaded_file.present
  /\ uploaded_file' = NoFile
  /\ Rerun
  /\ UNCHANGED <<apiKey, option, goal, experience_level, domain, interview_type, question>>

EnterGoal(g) ==
  /\ option = "Career Roadmap"
  /\ g # goal
  /\ goal' = g
  /\ Rerun
  /\ UNCHANGED <<apiKey, option, uploaded_file, experience_level, domain, interview_type, question>>

SelectExperience(l) ==
  /\ option = "Career Roadmap"
  /\ l # experience_level
  /\ experience_level' = l
  /\ Rerun
  /\ UNCHANGED <<apiKey, option, uploaded_file, goal, domain, interview_type, question>>

EnterDomain(d) ==
  /\ option = "Mock Interview"
  /\ d # domain
  /\ domain' = d
  /\ Rerun
  /\ UNCHANGED <<apiKey, option, uploaded_file, goal, experience_level, interview_type, question>>

SelectInterviewType(t) ==
  /\ option = "Mock Interview"
  /\ t # interview_type
  /\ interview_type' = t
  /\ Rerun
  /\ UNCHANGED <<apiKey, option, uploaded_file, goal, experience_level, domain, question>>

EnterQuestion(q) ==
  /\ option = "Career Advice"
  /\ q # question
  /\ question' = q
  /\ Rerun
  /\ UNCHANGED <<apiKey, option, uploaded_file, goal, experience_level, domain, interview_type>>

\* The buttons exist only where the script draws them (lines 155, 195, 232, 261).
ClickAnalyzeResume(resp) ==
  /\ option = "Resume Feedback"
  /\ uploaded_file.present
  /\ Ran("Analyze Resume", resp, ResumeFeedbackBranch(uploaded_file.doc, resp))
  /\ UNCHANGED <<apiKey, option, widgets>>

ClickGenerateRoadmap(resp) ==
  /\ option = "Career Roadmap"
  /\ Truthy(Str(goal))
  /\ Ran("Generate Roadmap", resp, CareerRoadmapBranch(goal, experience_level, resp))
  /\ UNCHANGED <<apiKey, option, widgets>>

ClickStartInterview(resp) ==
  /\ option = "Mock Interview"
  /\ Truthy(Str(domain))
  /\ Ran("Start Interview", resp, MockInterviewBranch(domain, interview_type, resp))
  /\ UNCHANGED <<apiKey, option, widgets>>

ClickGetAdvice(resp) ==
  /\ option = "Career Advice"
  /\ Truthy(Str(question))
  /\ Ran("Get Advice", resp, CareerAdviceBranch(question, resp))
  /\ UNCHANGED <<apiKey, option, widgets>>

Next ==
  \/ \E o \in Options : SelectOption(o)
  \/ \E d \in PdfDocs : UploadFile(d)
  \/ RemoveFile
  \/ \E g \in Texts : EnterGoal(g)
  \/ \E l \in ExperienceLevels : SelectExperience(l)
  \/ \E d \in Texts : EnterDomain(d)
  \/ \E t \in InterviewTypes : SelectInterviewType(t)
  \/ \E q \in Texts : EnterQuestion(q)
  \/ \E r \in Responses : ClickAnalyzeResume(r)
  \/ \E r \in Responses : ClickGenerateRoadmap(r)
  \/ \E r \in Responses : ClickStartInterview(r)
  \/ \E r \in Responses : ClickGetAdvice(r)

Spec == Init /\ [][Next]_vars

TypeOK ==
  /\ apiKey \in BOOLEAN
  /\ option \in Options
  /\ goal \in Texts /\ domain \in Texts /\ question \in Texts
  /\ experience_level \in ExperienceLevels
  /\ interview_type \in InterviewTypes
  /\ uploaded_file.present => uploaded_file.doc \in PdfDocs
  /\ Len(remote) <= 1

\* ------------------------------------------------------------ properties
\* s occurs in t as a contiguous run of tokens
IsSubstring(s, t) ==
  \E i \in 0..(Len(t) - Len(s)) : SubSeq(t, i + 1, i + Len(s)) = s

\* only whitespace (or nothing at all)
Blank(s) == \A i \in 1..Len(s) : s[i] = " "

\* the document does not parse or one of its pages does not extract
DocFails(doc) == ~doc.parses \/ \E i \in 1..Len(doc.pages) : doc.pages[i].raises

\* text of all pages in document order
RECURSIVE ConcatPages(_)
ConcatPages(pages) ==
  IF pages = <<>> THEN <<>>
  ELSE ConcatPages(SubSeq(pages, 1, Len(pages) - 1)) \o pages[Len(pages)].text

FnOf(o) ==
  CASE o = "Resume Feedback" -> "get_resume_feedback"
    [] o = "Career Roadmap" -> "generate_roadmap"
    [] o = "Mock Interview" -> "mock_interview"
    [] o = "Career Advice" -> "get_career_advice"

TemplateHeadOf(o) ==
  CASE o = "Resume Feedback" -> RESUME_HEAD
    [] o = "Career Roadmap" -> ROADMAP_HEAD
    [] o = "Mock Interview" -> INTERVIEW_HEAD
    [] o = "Career Advice" -> ADVICE_HEAD

ErrorPrefixOf(o) ==
  CASE o = "Resume Feedback" -> "Error generating feedback: "
    [] o = "Career Roadmap" -> "Error generating roadmap: "
    [] o = "Mock Interview" -> "Error generating interview questions: "
    [] o = "Career Advice" -> "Error generating advice: "

Faulted == remote # <<>> /\ remote[1].kind = "fault"
Succeeded == remote # <<>> /\ remote[1].kind = "text"

\* C1: whenever the remote generate call raised, no exception escapes the
\* run and the value handed to the page is a non-empty message made of the
\* use case's error prefix followed by the fault description.
C1_FaultBecomesMessage ==
  Faulted =>
    /\ ~uncaught
    /\ st_markdown.shown
    /\ Len(st_markdown.text) > 0
    /\ Head(st_markdown.text) = ErrorPrefixOf(option)
    /\ Tail(st_markdown.text) = remote[1].text
    /\ IsSubstring(remote[1].text, st_markdown.text)

C1_Witness ==
  /\ button = "Analyze Resume"
  /\ Faulted
  /\ remote[1].text # <<>>

\* C2: in a Resume Feedback run the extractor is the first call made, and
\* when the document does not parse or a page does not extract, the run
\* shows the extraction error message and makes no generate call.
C2_ExtractionFailureShortCircuits ==
  button = "Analyze Resume" =>
    /\ events # <<>> /\ events[1] = ExtractCall
    /\ DocFails(uploaded_file.doc) =>
         /\ st_error.shown
         /\ st_error.msg = <<"Error reading PDF: ",
                             IF uploaded_file.doc.parses THEN PAGE_ERR ELSE PARSE_ERR>>
         /\ GenCalls(events) = <<>>
         /\ ~st_markdown.shown

C2_Witness ==
  /\ button = "Analyze Resume"
  /\ uploaded_file.doc.parses
  /\ Len(uploaded_file.doc.pages) = 2
  /\ ~uploaded_file.doc.pages[1].raises
  /\ uploaded_file.doc.pages[1].text # <<>>
  /\ uploaded_file.doc.pages[2].raises
  /\ st_error.shown

RequiredInputBlank ==
  CASE option = "Resume Feedback" -> ~uploaded_file.present
    [] option = "Career Roadmap" -> Blank(goal)
    [] option = "Mock Interview" -> Blank(domain)
    [] option = "Career Advice" -> Blank(question)

\* C3: when the required input of the selected use case is absent, empty
\* or only whitespace, no run builds a prompt or calls the generation
\* service.
C3_BlankInputNeverGenerates ==
  RequiredInputBlank => GenCalls(events) = <<>>

\* the pressed button's run gets as far as the generation function
ReachesGeneration ==
  /\ button # ""
  /\ option = "Resume Feedback" => Truthy(resume_text)

\* C4: with GEMINI_API_KEY absent no generate call is made, and every run
\* that gets as far as the generation function ends with an error shown
\* instead.
C4_AbsentKeyNoRequest ==
  ~apiKey =>
    /\ GenCalls(events) = <<>>
    /\ ReachesGeneration => st_error.shown

\* C5: when the remote service returned text T, the text drawn on the page
\* and the data of the download are exactly T.
C5_SuccessTextUnmodified ==
  Succeeded =>
    /\ st_markdown = Shown(remote[1].text)
    /\ download.offered
    /\ download.data = remote[1].text

C5_Witness ==
  /\ button = "Start Interview"
  /\ Succeeded
  /\ remote[1].text # <<>>
  /\ st_markdown.shown

\* C6: every prompt sent contains, as a contiguous run, each field value the
\* user supplied for the selected use case.
C6_PromptContainsFields ==
  \A i \in 1..Len(events) :
    events[i].call = "generate_content" =>
      CASE option = "Resume Feedback" ->
             IsSubstring(ConcatPages(uploaded_file.doc.pages), events[i].prompt)
        [] option = "Career Roadmap" ->
             /\ IsSubstring(goal, events[i].prompt)
             /\ IsSubstring(<<experience_level>>, events[i].prompt)
        [] option = "Mock Interview" ->
             /\ IsSubstring(domain, events[i].prompt)
             /\ IsSubstring(<<interview_type>>, events[i].prompt)
        [] option = "Career Advice" ->
             IsSubstring(question, events[i].prompt)

C6_Witness ==
  /\ button = "Generate Roadmap"
  /\ Len(goal) > 1
  /\ experience_level = "Advanced"
  /\ GenCalls(events) # <<>>

\* C7: extraction of an N-page document yields the text of pages 1..N in
\* document order when the document parses and every page extracts, and
\* otherwise yields None with an error shown; never the text of a prefix.
C7_ExtractAllOrNothing ==
  button = "Analyze Resume" =>
    IF DocFails(uploaded_file.doc)
      THEN resume_text.isNone /\ st_error.shown
      ELSE resume_text = Str(ConcatPages(uploaded_file.doc.pages)) /\ ~st_error.shown

C7_Witness ==
  /\ button = "Analyze Resume"
  /\ ~DocFails(uploaded_file.doc)
  /\ Len(uploaded_file.doc.pages) = 2
  /\ resume_text = Str(<<"q", "p">>)

\* C8: a run makes at most one generate call, none without a button press,
\* and the call is made by the selected use case's function with that use
\* case's template.
C8_AtMostOneGenerateCall ==
  /\ Len(GenCalls(events)) <= 1
  /\ button = "" => GenCalls(events) = <<>>
  /\ \A i \in 1..Len(events) :
       events[i].call = "generate_content" =>
         /\ events[i].fn = FnOf(option)
         /\ Head(events[i].prompt) = TemplateHeadOf(option)

C8_Witness ==
  /\ button = "Get Advice"
  /\ Faulted
  /\ Len(GenCalls(events)) = 1

\* C9: a download is offered exactly when the request succeeded.
C9_DownloadIffSuccess ==
  download.offered <=> Succeeded

\* C10: every Analyze Resume press ends with either the feedback or an
\* error message drawn on the page.
C10_AnalyzeEndsVisibly ==
  button = "Analyze Resume" => (st_markdown.shown \/ st_error.shown)
====
